---------------------------- MODULE Spec2Model ----------------------------
(***************************************************************************)
(* DrawMeATree (src/draw.py): the tree builder generate_tree /             *)
(* adding_to_tree, the module list, the trace parser and the top level.    *)
(*                                                                         *)
(* Labels, filter words and trace lines are strings; substring search,     *)
(* splitting and digit parsing are computed character by character.        *)
(* A tree is a heap of nodes: nodes[n] is the n-th Node object created,    *)
(* a reference is its number, NoNode is Python's None.  The children of a  *)
(* node are, in order, the nodes created with it as parent (anytree        *)
(* appends a new child to its parent's children; no node is re-parented).  *)
(***************************************************************************)
EXTENDS Integers, Sequences, FiniteSets, TLC

\* ----------------------------------------------------------------- bounds
\* Longest entry sequence handed to generate_tree by SpecTree.
MaxLen == 3
\* Deepest depth marker of a generated entry or trace line.
MaxDepth == 3
\* Most lines of a generated input file.
MaxLines == 2

\* ------------------------------------------------------------ None values
\* tree = None, curr_node = None, a root's parent.
NoNode == 0
\* next_index = None.
NoIndex == -1
\* The process has not exited.
NoExit == -1

VARIABLES
    pc,             \* position of the run
    argv,           \* the command line, as argparse reads it
    wt_file,        \* the lines of the input file
    MODULES_LIST,   \* the global list of modules, in first-seen order
    wt_input,       \* the parsed entries: a sequence of <<index, function>>
    filters_words,  \* the filter list of the filtered build
    full_tree,      \* state of generate_tree(wt_input, None)
    filtered_tree,  \* state of generate_tree(wt_input, filters_words)
    again_tree,     \* state of a call of generate_tree made a second time
    files,          \* the .dot and .png files that exist
    RETURN_CODE,    \* the global RETURN_CODE
    raised,         \* what left the try block: "" or an exception's name
    exit_code       \* the exit status of the process, NoExit while it runs

vars == <<pc, argv, wt_file, MODULES_LIST, wt_input, filters_words, full_tree,
          filtered_tree, again_tree, files, RETURN_CODE, raised, exit_code>>

\* What the two calls of generate_tree leave alone.
run_vars == <<argv, wt_file, MODULES_LIST, files, RETURN_CODE, raised, exit_code>>

\* ---------------------------------------------------------------- strings
\* str.find: the lowest 0-based index at which sub occurs in s, or -1.
find(s, sub) ==
    LET hits == {i \in 0..(Len(s) - Len(sub)) : SubSeq(s, i + 1, i + Len(sub)) = sub}
    IN  IF hits = {} THEN -1
        ELSE CHOOSE i \in hits : \A j \in hits : i <= j

\* ------------------------------------------------------------------ trees
\* Node(function, parent=parent): a new object at the end of the heap.
\* src is the position in the entry sequence of the entry it was made for.
Node(nodes, function, parent, src) ==
    Append(nodes, [name |-> function, parent |-> parent, src |-> src])

\* filters_list: None, or a list of words.
FiltersNone == [none |-> TRUE, words |-> <<>>]

FiltersList(words) == [none |-> FALSE, words |-> words]

\* The locals of generate_tree before its loop; pos counts the entries the
\* loop has consumed, exc is the exception that left the loop ("" if none).
NewBuild ==
    [tree |-> NoNode, curr_node |-> NoNode, curr_lvl |-> 0,
     next_index |-> NoIndex, nodes |-> <<>>, pos |-> 0, exc |-> ""]

\* Mutation of generate_tree_begin: the call goes on with the tree, the
\* cursor, the level and the skip depth that the call before left.
generate_tree_begin_stale(left) == [left EXCEPT !.pos = 0, !.exc = ""]

\* The four assignments that begin generate_tree; left is what the call
\* before left in its locals, which the new call does not see.
generate_tree_begin(left) == NewBuild

\* for i in range(k): curr_node = curr_node.parent
\* (None has no attribute parent).
RECURSIVE Ascend(_, _, _)
Ascend(nodes, n, k) ==
    IF k <= 0 THEN [node |-> n, exc |-> ""]
    ELSE IF n = NoNode THEN [node |-> n, exc |-> "AttributeError"]
    ELSE Ascend(nodes, nodes[n].parent, k - 1)

\* Mutation of AddRoot: an entry of depth 0 always makes a new root.
AddRootAlways(b, function) ==
    [b EXCEPT !.nodes = Node(b.nodes, function, NoNode, b.pos + 1),
              !.tree = Len(b.nodes) + 1,
              !.curr_node = Len(b.nodes) + 1,
              !.curr_lvl = 0]

\* Mutation of AddRoot: with a tree, an entry of depth 0 moves the cursor
\* back to the root.
AddRootRewind(b, function) ==
    IF b.tree = NoNode
    THEN [b EXCEPT !.nodes = Node(b.nodes, function, NoNode, b.pos + 1),
                   !.tree = Len(b.nodes) + 1,
                   !.curr_node = Len(b.nodes) + 1,
                   !.curr_lvl = 0]
    ELSE [b EXCEPT !.curr_node = b.tree, !.curr_lvl = 0]

\* Mutation of AddRoot: with a tree, an entry of depth 0 is an error.
AddRootOnce(b, function) ==
    IF b.tree = NoNode
    THEN [b EXCEPT !.nodes = Node(b.nodes, function, NoNode, b.pos + 1),
                   !.tree = Len(b.nodes) + 1,
                   !.curr_node = Len(b.nodes) + 1,
                   !.curr_lvl = 0]
    ELSE [b EXCEPT !.exc = "ValueError"]

\* index == 0: the first such entry makes the root; with a tree, pass.
AddRoot(b, function) ==
    IF b.tree = NoNode
    THEN [b EXCEPT !.nodes = Node(b.nodes, function, NoNode, b.pos + 1),
                   !.tree = Len(b.nodes) + 1,
                   !.curr_node = Len(b.nodes) + 1,
                   !.curr_lvl = 0]
    ELSE b

\* Mutation of AddChild: the level is not incremented.
AddChildSameLevel(b, function) ==
    [b EXCEPT !.nodes = Node(b.nodes, function, b.curr_node, b.pos + 1),
              !.curr_node = Len(b.nodes) + 1]

\* index == curr_lvl + 1: curr_node = Node(function, parent=curr_node).
AddChild(b, function) ==
    [b EXCEPT !.nodes = Node(b.nodes, function, b.curr_node, b.pos + 1),
              !.curr_node = Len(b.nodes) + 1,
              !.curr_lvl = b.curr_lvl + 1]

\* Mutation of MoveUp: the ascent also makes a node for its entry, under
\* the ancestor it lands on.
MoveUpAndAdd(b, index, function) ==
    LET up == Ascend(b.nodes, b.curr_node, b.curr_lvl - index)
    IN  IF up.exc # "" THEN [b EXCEPT !.exc = up.exc]
        ELSE [b EXCEPT !.nodes = Node(b.nodes, function, up.node, b.pos + 1),
                       !.curr_node = up.node, !.curr_lvl = index]

\* index < curr_lvl: walk up curr_lvl - index parents; no node is made.
MoveUp(b, index, function) ==
    LET up == Ascend(b.nodes, b.curr_node, b.curr_lvl - index)
    IN  IF up.exc # "" THEN [b EXCEPT !.exc = up.exc]
        ELSE [b EXCEPT !.curr_node = up.node, !.curr_lvl = index]

\* Mutation of AddSibling: the new node nests under curr_node.
AddSiblingNested(b, function) ==
    IF b.curr_node = NoNode THEN [b EXCEPT !.exc = "AttributeError"]
    ELSE [b EXCEPT !.nodes = Node(b.nodes, function, b.curr_node, b.pos + 1),
                   !.curr_node = Len(b.nodes) + 1]

\* index == curr_lvl: curr_node = Node(function, parent=curr_node.parent)
\* (None has no attribute parent).
AddSibling(b, function) ==
    IF b.curr_node = NoNode THEN [b EXCEPT !.exc = "AttributeError"]
    ELSE [b EXCEPT !.nodes = Node(b.nodes, function,
                                  b.nodes[b.curr_node].parent, b.pos + 1),
                   !.curr_node = Len(b.nodes) + 1]

\* The else branch: the message is formatted, reading curr_node.name, before
\* ValueError is raised; with curr_node None that read raises AttributeError.
Reject(b) ==
    IF b.curr_node = NoNode THEN [b EXCEPT !.exc = "AttributeError"]
    ELSE [b EXCEPT !.exc = "ValueError"]

\* adding_to_tree(tree, curr_node, curr_lvl, index, function) on the locals
\* b of generate_tree.
adding_to_tree(b, index, function) ==
    IF index = 0 THEN AddRoot(b, function)
    ELSE IF index = b.curr_lvl + 1 THEN AddChild(b, function)
    ELSE IF index < b.curr_lvl THEN MoveUp(b, index, function)
    ELSE IF index = b.curr_lvl THEN AddSibling(b, function)
    ELSE Reject(b)

\* Mutation of matches_filter: every word of the list must occur in the name.
matches_filter_all(function, words) ==
    \A k \in 1..Len(words) : find(function, words[k]) # -1

\* Mutation of matches_filter: a word counts only at the start of the name.
matches_filter_prefix(function, words) ==
    \E k \in 1..Len(words) : find(function, words[k]) = 0

\* The filter loop of generate_tree: some word occurs in the name.
matches_filter(function, words) ==
    \E k \in 1..Len(words) : find(function, words[k]) # -1

\* Mutation of SkipEntry: the skipped entry also clears next_index.
SkipEntryClearing(b) == [b EXCEPT !.pos = b.pos + 1, !.next_index = NoIndex]

\* continue, for a child of a filtered node: the loop goes to the next entry.
SkipEntry(b) == [b EXCEPT !.pos = b.pos + 1]

\* One iteration of the loop of generate_tree over data, on its locals b.
\* An exception leaves pos at the entry that raised it.
generate_tree_step(b, data, filters_list) ==
    LET index == data[b.pos + 1][1]
        function == data[b.pos + 1][2]
        added(c) == LET r == adding_to_tree(c, index, function)
                    IN  IF r.exc # "" THEN r ELSE [r EXCEPT !.pos = b.pos + 1]
    IN  IF filters_list.none THEN added(b)
        ELSE IF b.next_index # NoIndex /\ index > b.next_index
        THEN SkipEntry(b)
        ELSE IF matches_filter(function, filters_list.words)
        THEN [b EXCEPT !.next_index = index, !.pos = b.pos + 1]
        ELSE added([b EXCEPT !.next_index = NoIndex])

\* generate_tree has left its loop: by return or by an exception.
Finished(b, data) == b.exc # "" \/ b.pos = Len(data)

\* generate_tree returned (a tree or None).
Returned(b, data) == b.exc = "" /\ b.pos = Len(data)

\* ------------------------------------------------- reading a built tree
\* The children of node p, in the order they were attached.
RECURSIVE Ascending(_)
Ascending(S) ==
    IF S = {} THEN <<>>
    ELSE LET m == CHOOSE x \in S : \A y \in S : x <= y
         IN  <<m>> \o Ascending(S \ {m})

Children(nodes, p) == Ascending({n \in 1..Len(nodes) : nodes[n].parent = p})

\* Pre-order walk (a node before its children, children in order) of the
\* nodes in todo and below.
RECURSIVE PreOrder(_, _)
PreOrder(nodes, todo) ==
    IF todo = <<>> THEN <<>>
    ELSE <<Head(todo)>> \o PreOrder(nodes, Children(nodes, Head(todo)) \o Tail(todo))

\* The nodes of the tree generate_tree returns (none when it returns None).
TreeOf(b) == IF b.tree = NoNode THEN <<>> ELSE PreOrder(b.nodes, <<b.tree>>)

TreeNodes(b) == {TreeOf(b)[k] : k \in 1..Len(TreeOf(b))}

PreOrderNames(b) == [k \in 1..Len(TreeOf(b)) |-> b.nodes[TreeOf(b)[k]].name]

NamesOf(b) == {b.nodes[n].name : n \in TreeNodes(b)}

\* The names on the path from the top of n's tree down to n.
RECURSIVE PathNames(_, _)
PathNames(nodes, n) ==
    IF n = NoNode THEN <<>>
    ELSE Append(PathNames(nodes, nodes[n].parent), nodes[n].name)

\* The number of parent links from node n up to node a; -1 if a is not n or
\* an ancestor of n.
RECURSIVE LinksUp(_, _, _)
LinksUp(nodes, n, a) ==
    IF n = a THEN 0
    ELSE IF n = NoNode THEN -1
    ELSE LET r == LinksUp(nodes, nodes[n].parent, a)
         IN  IF r = -1 THEN -1 ELSE r + 1

\* ------------------------------------------------------------- the parser
Digits == <<"0", "1", "2", "3", "4", "5", "6", "7", "8", "9">>

IsDigit(c) == \E k \in 1..10 : Digits[k] = c

DigitValue(c) == (CHOOSE k \in 1..10 : Digits[k] = c) - 1

\* re.search(r"\[  [0-" + str(filter_level) + "].*$", line): somewhere in
\* the line, "[", two spaces and a digit from 0 to filter_level (.*$ takes
\* the rest of the line whatever it is).
re_search(line, filter_level) ==
    \E i \in 1..(Len(line) - 3) :
        /\ SubSeq(line, i, i + 2) = "[  "
        /\ \E d \in 0..filter_level : SubSeq(line, i + 3, i + 3) = Digits[d + 1]

\* line.split(): the maximal runs of non-blank characters (the lines of the
\* model hold no other white space than blanks).
RECURSIVE SplitFrom(_, _, _)
SplitFrom(s, i, word) ==
    LET done == IF word = "" THEN <<>> ELSE <<word>>
    IN  IF i > Len(s) THEN done
        ELSE IF SubSeq(s, i, i) = " " THEN done \o SplitFrom(s, i + 1, "")
        ELSE SplitFrom(s, i + 1, word \o SubSeq(s, i, i))

split(s) == SplitFrom(s, 1, "")

\* s.replace(old, ""), old a single character.
RECURSIVE replace(_, _)
replace(s, old) ==
    IF s = "" THEN ""
    ELSE (IF SubSeq(s, 1, 1) = old THEN "" ELSE SubSeq(s, 1, 1))
            \o replace(SubSeq(s, 2, Len(s)), old)

\* int(s) for a string of digits and other printable characters: the
\* number, or -1 where int raises ValueError.
RECURSIVE DecimalValue(_)
DecimalValue(s) ==
    IF s = "" THEN 0
    ELSE 10 * DecimalValue(SubSeq(s, 1, Len(s) - 1)) + DigitValue(SubSeq(s, Len(s), Len(s)))

int(s) ==
    IF s = "" \/ \E i \in 1..Len(s) : ~IsDigit(SubSeq(s, i, i)) THEN -1
    ELSE DecimalValue(s)

\* name.split("!")[0]: the text before the first "!", all of it without one.
module_of(name) ==
    IF find(name, "!") = -1 THEN name ELSE SubSeq(name, 1, find(name, "!"))

InList(x, list) == \E k \in 1..Len(list) : list[k] = x

\* adding_to_module_list(function_module) on the global list modules.
adding_to_module_list(modules, function_module) ==
    IF module_of(function_module) # "" /\ ~InList(module_of(function_module), modules)
    THEN Append(modules, module_of(function_module))
    ELSE modules

\* The loop of parse_input_file from line k on; words[3] is read before
\* words[4], and a list index out of range raises IndexError.
RECURSIVE parse_lines(_, _, _, _)
parse_lines(data, k, filter_level, acc) ==
    IF k > Len(data) THEN acc
    ELSE IF ~re_search(data[k], filter_level)
    THEN parse_lines(data, k + 1, filter_level, acc)
    ELSE LET words == split(data[k])
         IN  IF Len(words) < 4 THEN [acc EXCEPT !.exc = "IndexError"]
             ELSE IF int(replace(words[4], "]")) = -1
             THEN [acc EXCEPT !.exc = "ValueError"]
             ELSE IF Len(words) < 5 THEN [acc EXCEPT !.exc = "IndexError"]
             ELSE parse_lines(data, k + 1, filter_level,
                    [acc EXCEPT
                       !.parsed_lines = Append(@, <<int(replace(words[4], "]")), words[5]>>),
                       !.modules = adding_to_module_list(@, words[5])])

\* parse_input_file(wt_output_file, filter_level): the parsed lines, the
\* module list it leaves, and the exception it raises ("" if none).
parse_input_file(data, filter_level, modules) ==
    LET r == parse_lines(data, 1, filter_level,
                         [parsed_lines |-> <<>>, modules |-> modules, exc |-> ""])
    IN  IF r.exc = "" /\ r.parsed_lines = <<>> THEN [r EXCEPT !.exc = "ValueError"]
        ELSE r

\* ---------------------------------------------------------- the renderer
colors ==
    <<"lightblue", "thistle", "wheat", "darkseagreen", "darksalmon", "papayawhip",
      "rosybrown", "lightcoral", "tan", "cadetblue", "plum">>

\* determine_node_att(node): the attribute string of the node's module, or
\* "ValueError" when no element of MODULES_LIST equals it.
determine_node_att(name, modules) ==
    IF ~InList(module_of(name), modules) THEN "ValueError"
    ELSE LET index == (CHOOSE k \in 1..Len(modules) : modules[k] = module_of(name)) - 1
         IN  IF index >= Len(colors)
             THEN "shape=box, style=filled, fillcolor = grey"
             ELSE "shape=box, style=filled, fillcolor = " \o colors[index + 1]

\* Writing the .dot file walks the tree and asks nodenamefunc and
\* nodeattrfunc for every node: None has no attribute name, and
\* determine_node_att may raise.  "" when the walk ends without exception.
dot_export(b, modules) ==
    IF b.tree = NoNode THEN "AttributeError"
    ELSE IF \E n \in TreeNodes(b) : determine_node_att(b.nodes[n].name, modules) = "ValueError"
    THEN "ValueError"
    ELSE ""

\* ------------------------------------------------------- the command line
error_filters == <<"Error", "mkstr">>

char_filters == <<"toupper", "tolower", "Unicode", "towlower", "towupper">>

routine_filters ==
    <<"CriticalSection", "security_check", "Alloc", "Heap", "free", "operator",
      "LockExclusive">>

irrelevant_ops ==
    <<"memcpy", "memmove", "memset", "Close", "Rtlp", "Language", "initterm", "Fls">>

\* What args.filters_words is extended with for a filter level.
preset_filters(filter_level) ==
    IF filter_level = "light" THEN routine_filters \o error_filters
    ELSE IF filter_level = "medium"
    THEN routine_filters \o error_filters \o char_filters
    ELSE routine_filters \o error_filters \o char_filters \o irrelevant_ops

\* ------------------------------------------------ inputs of the tree builder
Labels == {"m!f", "n!memset", "!h"}

Entries == {<<d, l>> : d \in 0..MaxDepth, l \in Labels}

RECURSIVE SeqsUpTo(_, _)
SeqsUpTo(S, n) ==
    IF n = 0 THEN {<<>>}
    ELSE LET shorter == SeqsUpTo(S, n - 1)
         IN  shorter \cup {Append(s, e) : s \in {t \in shorter : Len(t) = n - 1}, e \in S}

\* The traces of the testable properties of the design, and two deeper ones.
SuppressionTrace == << <<0, "A">>, <<1, "Bad">>, <<2, "C">>, <<3, "D">>, <<1, "E">> >>

AscentTrace == << <<0, "A">>, <<1, "B">>, <<2, "C">>, <<1, "D">> >>

SiblingTrace == << <<0, "A">>, <<1, "B">>, <<1, "C">> >>

DeepAscentTrace ==
    << <<0, "A">>, <<1, "B">>, <<2, "C">>, <<3, "D">>, <<1, "B">>, <<2, "E">> >>

ReturnTrace ==
    << <<0, "A">>, <<1, "B">>, <<2, "C">>, <<0, "A">>, <<3, "D">> >>

NamedTraces == {SuppressionTrace, AscentTrace, SiblingTrace, DeepAscentTrace, ReturnTrace}

Traces == (SeqsUpTo(Entries, MaxLen) \ {<<>>}) \cup NamedTraces

FilterLists == {<<>>, <<"f">>, <<"h", "memset">>, <<"Bad">>, <<"C">>}

\* --------------------------------------------- the two calls of generate_tree
\* full_tree = generate_tree(wt_input, None), one entry at a time.
CallFullTree ==
    /\ pc = "call_full"
    /\ full_tree' = generate_tree_step(full_tree, wt_input, FiltersNone)
    /\ pc' = IF Finished(full_tree', wt_input) THEN "call_filtered" ELSE pc
    /\ UNCHANGED <<wt_input, filters_words, filtered_tree, again_tree>>
    /\ UNCHANGED run_vars

\* filtered_tree = generate_tree(wt_input, filters_words), one entry at a time.
CallFilteredTree ==
    /\ pc = "call_filtered"
    /\ filtered_tree' = generate_tree_step(filtered_tree, wt_input,
                                           FiltersList(filters_words))
    /\ pc' = IF Finished(filtered_tree', wt_input) THEN "begin_full_again" ELSE pc
    /\ UNCHANGED <<wt_input, filters_words, full_tree, again_tree>>
    /\ UNCHANGED run_vars

\* generate_tree(wt_input, None) called a second time, one entry at a time:
\* the call begins by setting its locals, whatever the call before left.
CallFullTreeAgain ==
    /\ pc \in {"begin_full_again", "call_full_again"}
    /\ again_tree' = generate_tree_step(
                        IF pc = "begin_full_again"
                        THEN generate_tree_begin(filtered_tree) ELSE again_tree,
                        wt_input, FiltersNone)
    /\ pc' = IF Finished(again_tree', wt_input) THEN "begin_filtered_again"
             ELSE "call_full_again"
    /\ UNCHANGED <<wt_input, filters_words, full_tree, filtered_tree>>
    /\ UNCHANGED run_vars

\* generate_tree(wt_input, filters_words) called a second time.
CallFilteredTreeAgain ==
    /\ pc \in {"begin_filtered_again", "call_filtered_again"}
    /\ again_tree' = generate_tree_step(
                        IF pc = "begin_filtered_again"
                        THEN generate_tree_begin(again_tree) ELSE again_tree,
                        wt_input, FiltersList(filters_words))
    /\ pc' = IF Finished(again_tree', wt_input) THEN "call_done"
             ELSE "call_filtered_again"
    /\ UNCHANGED <<wt_input, filters_words, full_tree, filtered_tree>>
    /\ UNCHANGED run_vars

InitTree ==
    /\ pc = "call_full"
    /\ wt_input \in Traces
    /\ filters_words \in FilterLists
    /\ full_tree = NewBuild
    /\ filtered_tree = NewBuild
    /\ again_tree = NewBuild
    /\ argv = [kind |-> "run", input_exists |-> TRUE, depth_level |-> 9,
               filter_level |-> "medium", filters_words |-> <<>>,
               console_mode |-> FALSE]
    /\ wt_file = <<>>
    /\ MODULES_LIST = <<>>
    /\ files = {}
    /\ RETURN_CODE = 0
    /\ raised = ""
    /\ exit_code = NoExit

NextTree ==
    \/ CallFullTree
    \/ CallFilteredTree
    \/ CallFullTreeAgain
    \/ CallFilteredTreeAgain

\* generate_tree applied to every bounded entry sequence, without filters
\* and with each filter list, and then once more with each argument.
SpecTree == InitTree /\ [][NextTree]_vars

\* ------------------------------------------------- inputs of the program
\* A record line of the wt output: instruction counts, "[  depth]", name.
RecordLine(d, l) == "3 0 [  " \o Digits[d + 1] \o "] " \o l

\* A line of the wt summary: no depth marker.
SummaryLine == "12 instructions were executed"

\* A line with a depth marker and too few words around it.
ShortLine == "[  1] m!f"

Lines == {RecordLine(d, l) : d \in 0..MaxDepth, l \in Labels} \cup {SummaryLine, ShortLine}

Files == SeqsUpTo(Lines, MaxLines)

\* -d: argparse admits 1..9 (default 9); the model runs these.
DepthLevels == {1, 2, 9}

\* -a: the custom filter words.
CustomWords == {<<>>, <<"f">>}

\* The command lines: a run (the input file named exists), a run on a
\* missing input file, --help, and a command line argparse rejects.
DefaultArgv ==
    [kind |-> "run", input_exists |-> TRUE, depth_level |-> 9,
     filter_level |-> "medium", filters_words |-> <<>>, console_mode |-> FALSE]

CommandLines ==
    [kind : {"run"}, input_exists : {TRUE}, depth_level : DepthLevels,
     filter_level : {"light", "medium", "high"}, filters_words : CustomWords,
     console_mode : BOOLEAN]
    \cup {[DefaultArgv EXCEPT !.input_exists = FALSE],
          [DefaultArgv EXCEPT !.kind = "help"],
          [DefaultArgv EXCEPT !.kind = "usage"]}

\* ------------------------------------------------------------ the top level
\* The except clauses of the top level.
Handled == {"FileNotFoundError", "ValueError", "CalledProcessError"}

\* Mutation of Raise: the clean-up runs at the end of the try block only, an
\* exception goes past it.
RaiseSkippingCleanup(e) ==
    /\ pc' = "sys_exit"
    /\ RETURN_CODE' = IF e \in Handled THEN 1 ELSE RETURN_CODE
    /\ raised' = IF e \in Handled THEN "" ELSE e

\* Exception e leaves the try block: its except clause sets RETURN_CODE, or
\* no clause matches and e goes on past the finally block.
Raise(e) ==
    /\ pc' = "finally"
    /\ RETURN_CODE' = IF e \in Handled THEN 1 ELSE RETURN_CODE
    /\ raised' = IF e \in Handled THEN "" ELSE e

\* The statement ends without exception.
Goto(next) ==
    /\ pc' = next
    /\ UNCHANGED <<RETURN_CODE, raised>>

\* p_args = parse_arguments(): parser.parse_args() leaves by SystemExit for
\* --help (status 0) and for a rejected command line (status 2); then the
\* input file must exist; then the preset filters are appended.
ParseArguments ==
    /\ pc = "parse_arguments"
    /\ IF argv.kind = "help" THEN Raise("SystemExit(0)") /\ UNCHANGED filters_words
       ELSE IF argv.kind = "usage" THEN Raise("SystemExit(2)") /\ UNCHANGED filters_words
       ELSE IF ~argv.input_exists
       THEN Raise("FileNotFoundError") /\ UNCHANGED filters_words
       ELSE /\ filters_words' = argv.filters_words \o preset_filters(argv.filter_level)
            /\ Goto("parse_input_file")
    /\ UNCHANGED <<argv, wt_file, MODULES_LIST, wt_input, full_tree, filtered_tree,
                   again_tree, files, exit_code>>

\* wt_input = parse_input_file(p_args.input_file, p_args.depth_level)
ParseInputFile ==
    /\ pc = "parse_input_file"
    /\ LET r == parse_input_file(wt_file, argv.depth_level, MODULES_LIST)
       IN  /\ MODULES_LIST' = r.modules
           /\ IF r.exc # "" THEN Raise(r.exc) /\ UNCHANGED wt_input
              ELSE wt_input' = r.parsed_lines /\ Goto("generate_tree_full")
    /\ UNCHANGED <<argv, wt_file, filters_words, full_tree, filtered_tree,
                   again_tree, files, exit_code>>

\* full_tree = generate_tree(wt_input, None), one entry at a time.
GenerateFullTree ==
    /\ pc = "generate_tree_full"
    /\ full_tree' = generate_tree_step(full_tree, wt_input, FiltersNone)
    /\ IF full_tree'.exc # "" THEN Raise(full_tree'.exc)
       ELSE Goto(IF Returned(full_tree', wt_input) THEN "generate_tree_filtered" ELSE pc)
    /\ UNCHANGED <<argv, wt_file, MODULES_LIST, wt_input, filters_words,
                   filtered_tree, again_tree, files, exit_code>>

\* filtered_tree = generate_tree(wt_input, p_args.filters_words), one entry
\* at a time.
GenerateFilteredTree ==
    /\ pc = "generate_tree_filtered"
    /\ filtered_tree' = generate_tree_step(filtered_tree, wt_input,
                                           FiltersList(filters_words))
    /\ IF filtered_tree'.exc # "" THEN Raise(filtered_tree'.exc)
       ELSE Goto(IF Returned(filtered_tree', wt_input) THEN "generate_png_full" ELSE pc)
    /\ UNCHANGED <<argv, wt_file, MODULES_LIST, wt_input, filters_words, full_tree,
                   again_tree, files, exit_code>>

\* generate_png(directory_path, tree_type, tree, direction): <tree_type>.dot
\* is opened for writing, the tree is exported into it, then dot is run on
\* it: dot writes the .png, or exits non-zero (CalledProcessError), or is
\* not found (FileNotFoundError).
generate_png(tree_type, b, next) ==
    /\ IF dot_export(b, MODULES_LIST) # ""
       THEN /\ files' = files \cup {tree_type \o ".dot"}
            /\ Raise(dot_export(b, MODULES_LIST))
       ELSE \E dot \in {"ok", "CalledProcessError", "FileNotFoundError"} :
               IF dot = "ok"
               THEN /\ files' = files \cup {tree_type \o ".dot", tree_type \o ".png"}
                    /\ Goto(next)
               ELSE /\ files' = files \cup {tree_type \o ".dot"}
                    /\ Raise(dot)
    /\ UNCHANGED <<argv, wt_file, MODULES_LIST, wt_input, filters_words, full_tree,
                   filtered_tree, again_tree, exit_code>>

\* generate_png(p_args.requested_dir, "full_tree", full_tree, ...)
GenerateFullPng ==
    /\ pc = "generate_png_full"
    /\ generate_png("full_tree", full_tree, "generate_png_filtered")

\* generate_png(p_args.requested_dir, "filtered_tree", filtered_tree, ...)
GenerateFilteredPng ==
    /\ pc = "generate_png_filtered"
    /\ generate_png("filtered_tree", filtered_tree,
                    IF argv.console_mode THEN "display_console_tree" ELSE "finally")

\* if p_args.console_mode is True: display_console_tree(filtered_tree)
DisplayConsoleTree ==
    /\ pc = "display_console_tree"
    /\ Goto("finally")
    /\ UNCHANGED <<argv, wt_file, MODULES_LIST, wt_input, filters_words, full_tree,
                   filtered_tree, again_tree, files, exit_code>>

\* finally: the two .dot files are unlinked if they exist.
Finally ==
    /\ pc = "finally"
    /\ files' = files \ {"full_tree.dot", "filtered_tree.dot"}
    /\ pc' = "sys_exit"
    /\ UNCHANGED <<argv, wt_file, MODULES_LIST, wt_input, filters_words, full_tree,
                   filtered_tree, again_tree, RETURN_CODE, raised, exit_code>>

\* The process ends: by sys.exit(RETURN_CODE), by the SystemExit of argparse
\* with its status, or by an uncaught exception, with status 1.
SysExit ==
    /\ pc = "sys_exit"
    /\ exit_code' = IF raised = "" THEN RETURN_CODE
                    ELSE IF raised = "SystemExit(0)" THEN 0
                    ELSE IF raised = "SystemExit(2)" THEN 2
                    ELSE 1
    /\ pc' = "exited"
    /\ UNCHANGED <<argv, wt_file, MODULES_LIST, wt_input, filters_words, full_tree,
                   filtered_tree, again_tree, files, RETURN_CODE, raised>>

Init ==
    /\ pc = "parse_arguments"
    /\ argv \in CommandLines
    /\ wt_file \in (IF argv.kind = "run" /\ argv.input_exists THEN Files ELSE {<<>>})
    /\ files \in {{}, {"filtered_tree.dot"}}
    /\ MODULES_LIST = <<>>
    /\ wt_input = <<>>
    /\ filters_words = argv.filters_words
    /\ full_tree = NewBuild
    /\ filtered_tree = NewBuild
    /\ again_tree = NewBuild
    /\ RETURN_CODE = 0
    /\ raised = ""
    /\ exit_code = NoExit

Next ==
    \/ ParseArguments
    \/ ParseInputFile
    \/ GenerateFullTree
    \/ GenerateFilteredTree
    \/ GenerateFullPng
    \/ GenerateFilteredPng
    \/ DisplayConsoleTree
    \/ Finally
    \/ SysExit

\* One run of the program.
Spec == Init /\ [][Next]_vars

\* The elements of s at the positions in keep, in order.
RECURSIVE Pick(_, _, _)
Pick(s, keep, k) ==
    IF k > Len(s) THEN <<>>
    ELSE (IF k \in keep THEN <<s[k]>> ELSE <<>>) \o Pick(s, keep, k + 1)

InputNames == [k \in 1..Len(wt_input) |-> wt_input[k][2]]

\* The entry the loop of build b is about to take, and whether the filter
\* steps let it through to the transition rule.
NextIndex(b) == wt_input[b.pos + 1][1]

NextFunction(b) == wt_input[b.pos + 1][2]

Contains(name, words) == \E k \in 1..Len(words) : find(name, words[k]) # -1

Accepted(b, fl) ==
    \/ fl.none
    \/ /\ ~(b.next_index # NoIndex /\ NextIndex(b) > b.next_index)
       /\ ~Contains(NextFunction(b), fl.words)

\* c is build b one accepted entry later.
AcceptedStep(b, c, fl) == c # b /\ Accepted(b, fl)

\* ------------------------------------------------------------------- C1
\* current_level before entry k of an error-free unfiltered build that
\* starts at depth 0, by the transition table.
RECURSIVE LevelBefore(_, _)
LevelBefore(data, k) ==
    IF k = 1 THEN 0
    ELSE LET l == LevelBefore(data, k - 1)
             d == data[k - 1][1]
         IN  IF d = l + 1 \/ (0 < d /\ d < l) THEN d ELSE l

\* Entries for which no node is made: an ascent, or depth 0 after the root.
Discarded(data) ==
    {k \in 2..Len(data) : data[k][1] = 0 \/ data[k][1] < LevelBefore(data, k)}

\* C1 as claimed: when the first entry has depth 0 and no entry takes the
\* error row, the pre-order names of generate_tree(data, None) are the input
\* names, same order, same length.
C1_RoundTrip ==
    (Returned(full_tree, wt_input) /\ wt_input[1][1] = 0)
        => PreOrderNames(full_tree) = InputNames

\* C1 amended: under the same conditions the pre-order names are the input
\* names without the entries that take the ascent row or repeat depth 0;
\* with no such entry they are the input names exactly.
C1_RoundTripKept ==
    (Returned(full_tree, wt_input) /\ wt_input[1][1] = 0)
        => PreOrderNames(full_tree)
             = Pick(InputNames, (1..Len(wt_input)) \ Discarded(wt_input), 1)

C1_Witness ==
    /\ wt_input = AscentTrace
    /\ Returned(full_tree, wt_input)
    /\ PreOrderNames(full_tree) = <<"A", "B", "C">>

\* ------------------------------------------------------------------- C2
BothReturnedTrees ==
    /\ Returned(full_tree, wt_input) /\ full_tree.tree # NoNode
    /\ Returned(filtered_tree, wt_input) /\ filtered_tree.tree # NoNode

\* C2 as claimed: when both builds return a tree, the names of the filtered
\* tree are a subset of the names of the unfiltered tree.
C2_FilteredNamesSubset ==
    BothReturnedTrees => NamesOf(filtered_tree) \subseteq NamesOf(full_tree)

\* ------------------------------------------------------------------- C3
\* Entry k lies between an entry whose name holds a filter word, of depth d,
\* and the next entry of depth <= d.
Shadowed(k) ==
    \E i \in 1..(k - 1) :
        /\ Contains(wt_input[i][2], filters_words)
        /\ \A j \in (i + 1)..k : wt_input[j][1] > wt_input[i][1]

\* C3: the filtered build never holds a node whose name contains a filter
\* word, nor a node made from an entry between a suppressed entry of depth d
\* and the next entry of depth <= d; for [(0,A),(1,Bad),(2,C),(3,D),(1,E)]
\* and filter [Bad] it returns exactly root A with the single child E.
C3_SubtreeSuppression ==
    /\ \A n \in 1..Len(filtered_tree.nodes) :
        /\ ~Contains(filtered_tree.nodes[n].name, filters_words)
        /\ ~Shadowed(filtered_tree.nodes[n].src)
    /\ (/\ wt_input = SuppressionTrace
        /\ filters_words = <<"Bad">>
        /\ Returned(filtered_tree, wt_input))
        => LET t == TreeOf(filtered_tree)
           IN  /\ Len(t) = 2
               /\ filtered_tree.nodes[t[1]].name = "A"
               /\ filtered_tree.nodes[t[2]].name = "E"
               /\ filtered_tree.nodes[t[2]].parent = t[1]

C3_Witness ==
    /\ wt_input = SuppressionTrace
    /\ filters_words = <<"Bad">>
    /\ Returned(filtered_tree, wt_input)
    /\ PreOrderNames(filtered_tree) = <<"A", "E">>

\* ------------------------------------------------------------------- C4
\* The nodes of the tree form the chain names[1] -> names[2] -> ...
IsChain(b, names) ==
    LET t == TreeOf(b)
    IN  /\ PreOrderNames(b) = names
        /\ \A k \in 2..Len(t) : b.nodes[t[k]].parent = t[k - 1]

AscentAddsChild(b, c, fl) ==
    (AcceptedStep(b, c, fl) /\ NextIndex(b) < b.curr_lvl)
        => \E n \in 1..Len(c.nodes) :
              /\ c.nodes[n].name = NextFunction(b)
              /\ c.nodes[n].src = b.pos + 1
              /\ c.nodes[n].parent = c.curr_node

\* C4 as claimed: an entry whose depth is lower than the current level ends
\* up in the tree as a child of the ancestor the cursor lands on; for
\* [(0,A),(1,B),(2,C),(1,D)] the tree is the chain A -> B -> C with D a
\* child of B.
C4_AscentAddsChild ==
    /\ [][/\ AscentAddsChild(full_tree, full_tree', FiltersNone)
          /\ AscentAddsChild(filtered_tree, filtered_tree',
                             FiltersList(filters_words))]_vars
    /\ []((wt_input = AscentTrace /\ Returned(full_tree, wt_input))
            => \E n \in TreeNodes(full_tree) :
                  /\ full_tree.nodes[n].name = "D"
                  /\ full_tree.nodes[n].parent # NoNode
                  /\ full_tree.nodes[full_tree.nodes[n].parent].name = "B")

AscentDiscards(b, c, fl) ==
    (AcceptedStep(b, c, fl) /\ NextIndex(b) < b.curr_lvl)
        => /\ c.exc = ""
           /\ (NextIndex(b) > 0 \/ b.tree # NoNode)
                => (c.nodes = b.nodes /\ c.tree = b.tree)
           /\ NextIndex(b) > 0
                => /\ c.curr_lvl = NextIndex(b)
                   /\ LinksUp(b.nodes, b.curr_node, c.curr_node)
                        = b.curr_lvl - NextIndex(b)
           /\ NextIndex(b) = 0
                => IF b.tree # NoNode
                   THEN c.curr_node = b.curr_node /\ c.curr_lvl = b.curr_lvl
                   ELSE /\ Len(c.nodes) = Len(b.nodes) + 1
                        /\ c.tree = Len(c.nodes)
                        /\ c.nodes[c.tree].parent = NoNode

\* C4 amended: an accepted entry whose depth is lower than the current
\* level makes no node, its label is discarded, when its depth is at least 1
\* or a root exists: for a depth of at least 1 the cursor moves up
\* current_level - depth parent links and current_level becomes the depth;
\* for depth 0 with a root nothing changes (depth 0 without a root makes the
\* root).  For [(0,A),(1,B),(2,C),(1,D)] the tree is the chain A -> B -> C
\* and holds no D.
C4_AscentDiscards ==
    /\ [][/\ AscentDiscards(full_tree, full_tree', FiltersNone)
          /\ AscentDiscards(filtered_tree, filtered_tree',
                            FiltersList(filters_words))]_vars
    /\ []((wt_input = AscentTrace /\ Returned(full_tree, wt_input))
            => IsChain(full_tree, <<"A", "B", "C">>))

C4_Witness ==
    /\ wt_input = AscentTrace
    /\ full_tree.pos = 4
    /\ full_tree.curr_lvl = 1
    /\ full_tree.curr_node # NoNode
    /\ full_tree.nodes[full_tree.curr_node].name = "B"
    /\ Len(full_tree.nodes) = 3

\* ------------------------------------------------------------------- C5
\* C5 as claimed: when both builds return a tree, every node of the
\* filtered tree has a root-to-node path of names that is also the path of
\* some node of the unfiltered tree.
C5_StructuralSubset ==
    BothReturnedTrees
        => \A n \in TreeNodes(filtered_tree) :
              \E m \in TreeNodes(full_tree) :
                  PathNames(full_tree.nodes, m) = PathNames(filtered_tree.nodes, n)

\* ------------------------------------------------------------------- C6
JumpRaisesValueError(b, c, fl) ==
    (AcceptedStep(b, c, fl) /\ NextIndex(b) > b.curr_lvl + 1)
        => c.exc = "ValueError"

\* C6 as claimed: in every builder state, also before any node exists, an
\* accepted entry of depth greater than current_level + 1 makes the build
\* fail with ValueError, and the build returns nothing.
C6_JumpRaisesValueError ==
    [][/\ JumpRaisesValueError(full_tree, full_tree', FiltersNone)
       /\ JumpRaisesValueError(filtered_tree, filtered_tree',
                               FiltersList(filters_words))]_vars

\* ------------------------------------------------------------------- C7
RootlessEntryRaises(b, c, fl) ==
    (AcceptedStep(b, c, fl) /\ b.nodes = <<>> /\ NextIndex(b) # 0)
        => c.exc # ""

\* C7 as claimed: the first entry that reaches the transition rule while no
\* node exists makes the build fail when its depth is not 0; it is never
\* accepted silently.
C7_RootlessEntryRaises ==
    [][/\ RootlessEntryRaises(full_tree, full_tree', FiltersNone)
       /\ RootlessEntryRaises(filtered_tree, filtered_tree',
                              FiltersList(filters_words))]_vars

\* ------------------------------------------------------------------- C8
\* c is b with one more node, named for the entry, with the parent of b's
\* current node; the cursor is on it and the level is the same.
SiblingAdded(b, c) ==
    /\ c.exc = ""
    /\ Len(c.nodes) = Len(b.nodes) + 1
    /\ SubSeq(c.nodes, 1, Len(b.nodes)) = b.nodes
    /\ c.nodes[Len(c.nodes)].name = NextFunction(b)
    /\ c.nodes[Len(c.nodes)].parent = b.nodes[b.curr_node].parent
    /\ c.curr_node = Len(c.nodes)
    /\ c.curr_lvl = b.curr_lvl
    /\ c.tree = b.tree

\* The tree is A with the children B, C in that order (C not under B).
SiblingTraceTree(b) ==
    /\ PreOrderNames(b) = <<"A", "B", "C">>
    /\ Children(b.nodes, b.tree) = SubSeq(TreeOf(b), 2, 3)

SiblingAtAnyDepth(b, c, fl) ==
    (AcceptedStep(b, c, fl) /\ b.curr_node # NoNode /\ NextIndex(b) = b.curr_lvl)
        => SiblingAdded(b, c)

SiblingBelowRoot(b, c, fl) ==
    (AcceptedStep(b, c, fl) /\ NextIndex(b) >= 1 /\ NextIndex(b) = b.curr_lvl)
        => (b.curr_node # NoNode /\ SiblingAdded(b, c))

C9_AttributesResolve ==
    wt_input # <<>>
        => /\ \A n \in 1..Len(full_tree.nodes) :
                determine_node_att(full_tree.nodes[n].name, MODULES_LIST) # "ValueError"
           /\ \A n \in 1..Len(filtered_tree.nodes) :
                determine_node_att(filtered_tree.nodes[n].name, MODULES_LIST) # "ValueError"

\* ------------------------------------------------------------------ C10
DotFiles == {"full_tree.dot", "filtered_tree.dot"}

\* Argument parsing, trace parsing, both builds and both renderings succeeded.
AllSucceeded ==
    /\ argv.kind = "run" /\ argv.input_exists
    /\ wt_input # <<>>
    /\ Returned(full_tree, wt_input)
    /\ Returned(filtered_tree, wt_input)
    /\ {"full_tree.png", "filtered_tree.png"} \subseteq files

\* C10 as claimed: every run ends with exit code 0 if and only if argument
\* parsing, trace parsing, both builds and both renderings succeeded, and
\* with exit code 1 after any handled error; on every exit path neither
\* .dot file exists at exit.
C10_ExitCodeAndCleanup ==
    pc = "exited"
        => /\ exit_code = 0 <=> AllSucceeded
           /\ RETURN_CODE = 1 => exit_code = 1
           /\ files \cap DotFiles = {}

\* C10 amended: every run that argparse does not end itself ends with exit
\* code 0 if and only if argument parsing, trace parsing, both builds and
\* both renderings succeeded, and with exit code 1 otherwise, in particular
\* after any handled error; argparse ends a --help run with exit code 0 and
\* a rejected command line with exit code 2; on every exit path neither
\* .dot file exists at exit.
C10_ExitCodeAndCleanupOfRuns ==
    pc = "exited"
        => /\ argv.kind = "run"
                => /\ exit_code = 0 <=> AllSucceeded
                   /\ exit_code \in {0, 1}
           /\ argv.kind = "help" => exit_code = 0
           /\ argv.kind = "usage" => exit_code = 2
           /\ RETURN_CODE = 1 => exit_code = 1
           /\ files \cap DotFiles = {}

C10_Witness ==
    /\ pc = "exited"
    /\ exit_code = 0
    /\ AllSucceeded
    /\ Len(filtered_tree.nodes) < Len(full_tree.nodes)
    /\ files = {"full_tree.png", "filtered_tree.png"}

\* ------------------------------------------------------------------ C11
\* A record line of the input format: the depth marker "[  N]" gives the
\* 3rd and 4th words "[" and "N]", and a 5th word, the label, follows.
IsRecordLine(line) ==
    LET words == split(line)
    IN  /\ Len(words) >= 5
        /\ words[3] = "["
        /\ Len(words[4]) >= 2
        /\ SubSeq(words[4], Len(words[4]), Len(words[4])) = "]"
        /\ int(SubSeq(words[4], 1, Len(words[4]) - 1)) # -1
        /\ find(line, "[  " \o words[4]) # -1

RecordDepth(line) == int(SubSeq(split(line)[4], 1, Len(split(line)[4]) - 1))

RecordLabel(line) == split(line)[5]

\* The (depth, label) pairs of the record lines of data, from line k on,
\* whose depth is at most D, in input order.
RECURSIVE RecordsUpTo(_, _, _)
RecordsUpTo(data, k, D) ==
    IF k > Len(data) THEN <<>>
    ELSE (IF IsRecordLine(data[k]) /\ RecordDepth(data[k]) <= D
          THEN << <<RecordDepth(data[k]), RecordLabel(data[k])>> >>
          ELSE <<>>) \o RecordsUpTo(data, k + 1, D)

\* parse_input_file has been called and has returned or raised (a return
\* leaves a non-empty wt_input).
ParserDone ==
    /\ argv.kind = "run" /\ argv.input_exists
    /\ pc \notin {"parse_arguments", "parse_input_file"}

\* C11 as claimed: for every input file and maximum depth, parse_input_file
\* returns exactly the record lines of depth 0..D as (depth, label) pairs in
\* input order; deeper record lines and non-record lines are skipped without
\* error (with nothing to return, the only error is the handled empty-result
\* ValueError).
C11_ParserDepthBound ==
    ParserDone
        => LET expected == RecordsUpTo(wt_file, 1, argv.depth_level)
           IN  IF expected # <<>> THEN wt_input = expected
               ELSE wt_input = <<>> /\ raised = ""

\* ------------------------------------------------------------------ C12
\* The entries the loop of parse_input_file extracts from the file before it
\* ends or is left by an exception.
Extracted ==
    parse_lines(wt_file, 1, argv.depth_level,
                [parsed_lines |-> <<>>, modules |-> <<>>, exc |-> ""]).parsed_lines

\* parse_input_file left by a ValueError, which the top level handles.
ParserRaisedValueError ==
    ParserDone /\ wt_input = <<>> /\ raised = "" /\ RETURN_CODE = 1

\* C12 as claimed: parse_input_file fails with ValueError if and only if no
\* entry was extracted from the whole input; whenever at least one entry is
\* extracted it returns the non-empty list without error.
C12_EmptyResult ==
    ParserDone
        => /\ ParserRaisedValueError <=> Extracted = <<>>
           /\ Extracted # <<>> => wt_input = Extracted

\* ------------------------------------------------------------------ C13
\* The position of node n in the pre-order walk t (0 for None).
PositionIn(t, n) ==
    IF n = NoNode THEN 0 ELSE CHOOSE k \in 1..Len(t) : t[k] = n

\* The tree a build returns, up to the identity of its nodes: in pre-order,
\* each node's name and the pre-order position of its parent.
Shape(b) ==
    LET t == TreeOf(b)
    IN  [k \in 1..Len(t) |->
            [name |-> b.nodes[t[k]].name,
             parent |-> PositionIn(t, b.nodes[t[k]].parent)]]

\* Two finished calls ended the same way: the same exception at the same
\* entry, or both returned, both None or trees of the same shape.
SameResult(a, b) ==
    /\ a.exc = b.exc
    /\ a.pos = b.pos
    /\ (a.tree = NoNode) <=> (b.tree = NoNode)
    /\ Shape(a) = Shape(b)

\* Every node that call b holds was made by call b: for an entry of its own
\* run over the input, later nodes for later entries.
MadeByCall(b) ==
    \A n \in 1..Len(b.nodes) :
        /\ b.nodes[n].src \in 1..Len(wt_input)
        /\ b.nodes[n].src <= b.pos + 1
        /\ \A m \in 1..(n - 1) : b.nodes[m].src < b.nodes[n].src

AscentTransition(b, c, fl) ==
    (AcceptedStep(b, c, fl) /\ 0 <= NextIndex(b) /\ NextIndex(b) < b.curr_lvl)
        => /\ c.exc = ""
           /\ c.curr_lvl = NextIndex(b)
           /\ LinksUp(b.nodes, b.curr_node, c.curr_node) = b.curr_lvl - NextIndex(b)
           /\ c.nodes = b.nodes
           /\ c.tree = b.tree

\* C14 as claimed: after an accepted entry of depth index with
\* 0 <= index < current_level, current_node is the ancestor of the previous
\* current_node current_level - index parent links up, current_level is
\* index, and no node has been made (the nodes of the tree are unchanged).
C14_AscentTransition ==
    [][/\ AscentTransition(full_tree, full_tree', FiltersNone)
       /\ AscentTransition(filtered_tree, filtered_tree',
                           FiltersList(filters_words))]_vars

\* ------------------------------------------------------------------ C15
SkipFrame(b, c) ==
    (c # b /\ b.next_index # NoIndex)
        => /\ NextIndex(b) > b.next_index
                => /\ c.exc = ""
                   /\ c.pos = b.pos + 1
                   /\ c.nodes = b.nodes
                   /\ c.tree = b.tree
                   /\ c.curr_node = b.curr_node
                   /\ c.curr_lvl = b.curr_lvl
                   /\ c.next_index = b.next_index
           /\ c.next_index # b.next_index => NextIndex(b) <= b.next_index

\* C15: in the filtered build, while next_index (the skip depth) is set, an
\* entry deeper than next_index leaves the tree, its nodes, current_node,
\* current_level and next_index unchanged; next_index is cleared or changed
\* only by an entry whose depth is at most next_index.
C15_SkipFrame ==
    [][SkipFrame(filtered_tree, filtered_tree')]_vars

C15_Witness ==
    /\ wt_input = SuppressionTrace
    /\ filters_words = <<"Bad">>
    /\ filtered_tree.pos = 4
    /\ filtered_tree.next_index = 1
    /\ filtered_tree.curr_lvl = 0
    /\ Len(filtered_tree.nodes) = 1

\* ------------------------------------------------------------------ C16
\* The position, from k on, of the first entry that the filter steps let
\* through to adding_to_tree (0 if there is none); next_index is the skip
\* depth before entry k.
RECURSIVE FirstAcceptedFrom(_, _, _, _)
FirstAcceptedFrom(data, k, next_index, fl) ==
    IF k > Len(data) THEN 0
    ELSE IF fl.none THEN k
    ELSE IF next_index # NoIndex /\ data[k][1] > next_index
    THEN FirstAcceptedFrom(data, k + 1, next_index, fl)
    ELSE IF Contains(data[k][2], fl.words)
    THEN FirstAcceptedFrom(data, k + 1, data[k][1], fl)
    ELSE k

FirstAccepted(data, fl) == FirstAcceptedFrom(data, 1, NoIndex, fl)

StartsAtRoot(data, fl) ==
    FirstAccepted(data, fl) # 0 /\ data[FirstAccepted(data, fl)][1] = 0

CursorInvariant(b, fl) ==
    StartsAtRoot(wt_input, fl)
        => /\ b.exc # "AttributeError"
           /\ (b.exc = "" /\ b.pos >= FirstAccepted(wt_input, fl))
                => /\ b.tree # NoNode
                   /\ b.nodes[b.tree].parent = NoNode
                   /\ b.curr_node \in TreeNodes(b)
                   /\ LinksUp(b.nodes, b.curr_node, b.tree) = b.curr_lvl

\* C16: when the first accepted entry of a build has depth 0, after every
\* processed entry of the build, unless it has raised, current_node is a
\* node of the tree under the root and current_level is the number of parent
\* links from current_node to the root; so no ascent goes past the root
\* (the build never raises AttributeError on a None parent).
C16_CursorInvariant ==
    /\ CursorInvariant(full_tree, FiltersNone)
    /\ CursorInvariant(filtered_tree, FiltersList(filters_words))

C16_Witness ==
    /\ wt_input = DeepAscentTrace
    /\ full_tree.pos = 6
    /\ full_tree.exc = ""
    /\ full_tree.curr_lvl = 2
    /\ full_tree.nodes[full_tree.curr_node].name = "E"
    /\ LinksUp(full_tree.nodes, full_tree.curr_node, full_tree.tree) = 2

\* ------------------------------------------------------------------ C17
\* The sequence starts at depth 0 and no entry is more than one level
\* deeper than the entry before it.
Adjacent(data) ==
    /\ data[1][1] = 0
    /\ \A k \in 2..Len(data) : data[k][1] <= data[k - 1][1] + 1

\* C17: for an entry sequence that starts at depth 0 and whose depths grow
\* by at most 1 from one entry to the next, neither generate_tree(data, None)
\* nor generate_tree(data, filters) with any filter list raises; for such an
\* input filtering does not turn an accepted input into a failure.
C17_NoErrorUnderAdjacency ==
    Adjacent(wt_input) => (full_tree.exc = "" /\ filtered_tree.exc = "")

C17_Witness ==
    /\ Adjacent(wt_input)
    /\ wt_input = AscentTrace
    /\ filters_words = <<"C">>
    /\ Returned(full_tree, wt_input)
    /\ Returned(filtered_tree, wt_input)
    /\ PreOrderNames(filtered_tree) = <<"A", "B", "D">>

\* ------------------------------------------------------------------ C18
\* The position, from k on, of the first entry of depth 0 that the filter
\* steps let through to adding_to_tree (0 if there is none).
RECURSIVE FirstAcceptedRootFrom(_, _, _, _)
FirstAcceptedRootFrom(data, k, next_index, fl) ==
    IF k > Len(data) THEN 0
    ELSE IF ~fl.none /\ next_index # NoIndex /\ data[k][1] > next_index
    THEN FirstAcceptedRootFrom(data, k + 1, next_index, fl)
    ELSE IF ~fl.none /\ Contains(data[k][2], fl.words)
    THEN FirstAcceptedRootFrom(data, k + 1, data[k][1], fl)
    ELSE IF data[k][1] = 0 THEN k
    ELSE FirstAcceptedRootFrom(data, k + 1, NoIndex, fl)

FirstAcceptedRoot(data, fl) == FirstAcceptedRootFrom(data, 1, NoIndex, fl)

RootEntryIgnored(b, c, fl) ==
    (AcceptedStep(b, c, fl) /\ b.tree # NoNode /\ NextIndex(b) = 0)
        => /\ c.exc = ""
           /\ c.nodes = b.nodes
           /\ c.tree = b.tree
           /\ c.curr_node = b.curr_node
           /\ c.curr_lvl = b.curr_lvl

RootIsFirstAcceptedRoot(b, fl) ==
    LET first == FirstAcceptedRoot(wt_input, fl)
    IN  /\ b.tree # NoNode
            => /\ b.nodes[b.tree].src = first
               /\ b.nodes[b.tree].name = wt_input[first][2]
               /\ b.nodes[b.tree].parent = NoNode
        /\ (Returned(b, wt_input) /\ first # 0) => b.tree # NoNode

\* C18: once the root exists, an accepted entry of depth 0 makes no node and
\* leaves the tree, current_node and current_level as they are (the cursor
\* does not go back to the root); the root of the tree a build holds and
\* returns is the node made for the first accepted entry of depth 0.
C18_SingleRoot ==
    /\ [][/\ RootEntryIgnored(full_tree, full_tree', FiltersNone)
          /\ RootEntryIgnored(filtered_tree, filtered_tree',
                              FiltersList(filters_words))]_vars
    /\ [](/\ RootIsFirstAcceptedRoot(full_tree, FiltersNone)
          /\ RootIsFirstAcceptedRoot(filtered_tree, FiltersList(filters_words)))

C18_Witness ==
    /\ wt_input = ReturnTrace
    /\ full_tree.pos = 4
    /\ full_tree.exc = ""
    /\ Len(full_tree.nodes) = 3
    /\ full_tree.tree = 1
    /\ full_tree.curr_lvl = 2
    /\ full_tree.nodes[full_tree.curr_node].name = "C"

\* ------------------------------------------------------------------ C19
\* C19: for every entry sequence, generate_tree(data, []) ends as
\* generate_tree(data, None) does: a tree of the same labels, shape and
\* child order (or None for both), or the same error at the same entry.
C19_EmptyFilterIsNoFilter ==
    (filters_words = <<>> /\ pc \notin {"call_full", "call_filtered"})
        => SameResult(filtered_tree, full_tree)

C19_Witness ==
    /\ filters_words = <<>>
    /\ wt_input = DeepAscentTrace
    /\ Returned(full_tree, wt_input)
    /\ Returned(filtered_tree, wt_input)
    /\ filtered_tree.next_index = NoIndex
    /\ PreOrderNames(filtered_tree) = <<"A", "B", "C", "D", "E">>
    /\ Shape(filtered_tree) = Shape(full_tree)

=============================================================================
